---- MODULE Spec2Model ----
(***************************************************************************)
(* Model of the deposit account opening dialogue service (src/app.py).     *)
(*                                                                         *)
(* The state of a dialogue lives in the Flask session object, which the    *)
(* default session interface serialises into the client's cookie at the    *)
(* end of a request only when the session object was marked modified       *)
(* (item assignment, pop); a mutation made in place inside a value that    *)
(* was read with session.get() does not mark it.  cookie is that stored    *)
(* dict; each handler works on a request-local copy and the action stores  *)
(* the copy back only when the handler's code marked it modified.          *)
(***************************************************************************)
EXTENDS Integers, Sequences, FiniteSets, TLC

VARIABLES cookie, issued, cancelled, last

vars == <<cookie, issued, cancelled, last>>

(***************************************************************************)
(* Bounds of the model.                                                    *)
(***************************************************************************)
MaxSessions == 2    \* session ids (uuid4 values) issued in one behaviour
MaxHist     == 2    \* user lines stored in one session's conversation_history
MaxTenure   == 120  \* the longest tenure, in months, that is formatted

(***************************************************************************)
(* Python values.  None is Python's None; a value is truthy when it is     *)
(* neither None nor the empty string.                                      *)
(***************************************************************************)
None == "None"

Absent == "<absent>"

Truthy(v) == v \notin {None, ""}

\* float(v): the strings float() parses, and the integer part of the result
FloatParses(v) == v \in {"500", "3000", "10000", "2", "5", "12", "26", "60", "1.5", "-5"}

FloatFloor(v) ==
    CASE v = "500"   -> 500
      [] v = "3000"  -> 3000
      [] v = "10000" -> 10000
      [] v = "2"     -> 2
      [] v = "5"     -> 5
      [] v = "12"    -> 12
      [] v = "26"    -> 26
      [] v = "60"    -> 60
      [] v = "1.5"   -> 1
      [] v = "-5"    -> -5
      [] OTHER       -> 0

\* int(v): the strings int() parses ("1.5" raises ValueError)
IntParses(v) == v \in {"500", "3000", "10000", "2", "5", "12", "26", "60", "-5"}

IntOf(v) == FloatFloor(v)

(***************************************************************************)
(* create_new_session: the deposit_info a session starts with.             *)
(***************************************************************************)
Fields ==
    <<"deposit_type", "fd_type", "amount", "tenure_months",
      "interest_payout", "renewal_option", "nominee_name", "nominee_relation">>

FieldSet == {Fields[i] : i \in 1..Len(Fields)}

EmptyInfo == [f \in FieldSet |-> None]

EmptySession == [k \in {} |-> None]

HasDeposit(s) == "deposit" \in DOMAIN s

\* session['deposit'] = {...}.  conversation_history is kept as the speakers of
\* its lines: the System welcome line, then one User line per appended message
create_new_session(sid) ==
    [deposit |-> [session_id |-> sid,
                  conversation_history |-> <<"System">>,
                  deposit_info |-> EmptyInfo]]

(***************************************************************************)
(* validate_deposit_info.  The result is the error list, or the exception  *)
(* raised by float()/int() on a value they cannot parse; a conversion is   *)
(* reached only on the branches the code evaluates it on.                  *)
(***************************************************************************)
ErrFdType    == "Please specify FD type (Regular or Tax Saver)"
ErrRegular   == "Regular FD minimum amount is Rs. 1,000"
ErrTaxAmount == "Tax Saver FD minimum amount is Rs. 5,000"
ErrTaxTenure == "Tax Saver FD tenure must be 5 years (60 months)"
ErrRd        == "RD minimum monthly installment is Rs. 5,000"
ErrTenure    == "Minimum tenure is 3 months"

RegularMin == 1000
TaxSaverMin == 5000
RdMin == 5000
TaxSaverTenure == 60
MinTenure == 3

\* the amount comparison of one branch: deposit_info['amount'] and float(...) < min
AmountBelow(info, min) ==
    Truthy(info["amount"]) /\ FloatParses(info["amount"])
        /\ FloatFloor(info["amount"]) < min

AmountRaises(info) == Truthy(info["amount"]) /\ ~FloatParses(info["amount"])

TenureRaises(info) == Truthy(info["tenure_months"]) /\ ~IntParses(info["tenure_months"])

validate_raises(info) ==
    \/ /\ info["deposit_type"] = "FD"
       /\ info["fd_type"] = "REGULAR"
       /\ AmountRaises(info)
    \/ /\ info["deposit_type"] = "FD"
       /\ info["fd_type"] = "TAX_SAVER"
       /\ (AmountRaises(info) \/ TenureRaises(info))
    \/ /\ info["deposit_type"] = "RD"
       /\ AmountRaises(info)
    \/ TenureRaises(info)

validate_errors(info) ==
    LET typeErrors ==
            IF info["deposit_type"] = "FD"
            THEN IF ~Truthy(info["fd_type"])
                 THEN <<ErrFdType>>
                 ELSE IF info["fd_type"] = "REGULAR"
                 THEN IF AmountBelow(info, RegularMin) THEN <<ErrRegular>> ELSE <<>>
                 ELSE IF info["fd_type"] = "TAX_SAVER"
                 THEN (IF AmountBelow(info, TaxSaverMin) THEN <<ErrTaxAmount>> ELSE <<>>)
                      \o (IF Truthy(info["tenure_months"])
                             /\ IntParses(info["tenure_months"])
                             /\ IntOf(info["tenure_months"]) # TaxSaverTenure
                          THEN <<ErrTaxTenure>> ELSE <<>>)
                 ELSE <<>>
            ELSE IF info["deposit_type"] = "RD"
            THEN IF AmountBelow(info, RdMin) THEN <<ErrRd>> ELSE <<>>
            ELSE <<>>
        tenureErrors ==
            IF Truthy(info["tenure_months"])
               /\ IntParses(info["tenure_months"])
               /\ IntOf(info["tenure_months"]) < MinTenure
            THEN <<ErrTenure>> ELSE <<>>
    IN typeErrors \o tenureErrors

validate_deposit_info(info) ==
    IF validate_raises(info)
    THEN [raised |-> TRUE, errors |-> <<>>]
    ELSE [raised |-> FALSE, errors |-> validate_errors(info)]

(***************************************************************************)
(* The required fields of process_deposit and the missing ones:            *)
(* deposit_info.get(field) is None for a key the dict does not have.       *)
(***************************************************************************)
Get(info, f) == IF f \in DOMAIN info THEN info[f] ELSE None

required_fields(info) ==
    <<"deposit_type", "amount", "tenure_months", "renewal_option">>
        \o (IF info["deposit_type"] = "FD"
            THEN <<"fd_type", "interest_payout">> ELSE <<>>)

IsMissing(info, f) == ~Truthy(Get(info, f))

missing_fields(info) ==
    LET req == required_fields(info)
        F[i \in 0..Len(req)] ==
            IF i = 0 THEN <<>>
            ELSE IF IsMissing(info, req[i]) THEN Append(F[i-1], req[i]) ELSE F[i-1]
    IN F[Len(req)]

(***************************************************************************)
(* format_confirmation.  The dict is walked in insertion order: the eight  *)
(* fields of create_new_session, then any key a merge added.  A key that   *)
(* friendly_fields does not have raises KeyError, a tenure int() cannot    *)
(* parse raises ValueError.                                                *)
(***************************************************************************)
friendly_fields(f) ==
    CASE f = "deposit_type"     -> "Deposit Type"
      [] f = "fd_type"          -> "FD Type"
      [] f = "amount"           -> "Amount"
      [] f = "tenure_months"    -> "Tenure"
      [] f = "interest_payout"  -> "Interest Payout"
      [] f = "renewal_option"   -> "Renewal Option"
      [] f = "nominee_name"     -> "Nominee Name"
      [] f = "nominee_relation" -> "Nominee Relationship"

\* a tenure_str that always writes the plural
TenureStr_Plural(n) ==
    LET years  == n \div 12
        months == n % 12
        y == IF years > 0 THEN <<ToString(years) \o " years">> ELSE <<>>
        m == IF months > 0 THEN <<ToString(months) \o " months">> ELSE <<>>
        parts == y \o m
    IN IF Len(parts) = 2 THEN parts[1] \o " and " \o parts[2]
       ELSE IF Len(parts) = 1 THEN parts[1]
       ELSE ""

\* the tenure_str of a tenure of n months, joined with " and "
TenureStr(n) ==
    LET years  == n \div 12
        months == n % 12
        y == IF years > 0
             THEN <<ToString(years) \o " year" \o (IF years > 1 THEN "s" ELSE "")>>
             ELSE <<>>
        m == IF months > 0
             THEN <<ToString(months) \o " month" \o (IF months > 1 THEN "s" ELSE "")>>
             ELSE <<>>
        parts == y \o m
    IN IF Len(parts) = 2 THEN parts[1] \o " and " \o parts[2]
       ELSE IF Len(parts) = 1 THEN parts[1]
       ELSE ""

ExtraKeys(info) == DOMAIN info \ FieldSet

format_raises(info) ==
    \/ \E k \in ExtraKeys(info) : Truthy(info[k])
    \/ Truthy(info["tenure_months"]) /\ ~IntParses(info["tenure_months"])

ConfirmationLine(info, f) ==
    IF ~Truthy(info[f]) THEN <<>>
    ELSE IF f = "amount"
    THEN <<"- " \o (IF info["deposit_type"] = "RD"
                    THEN "Monthly Installment" ELSE "Principal Amount")
                \o ": Rs. " \o info[f]>>
    ELSE IF f = "tenure_months"
    THEN <<"- " \o friendly_fields(f) \o ": " \o TenureStr(IntOf(info[f]))>>
    ELSE IF f = "interest_payout" /\ info["deposit_type"] = "RD"
    THEN <<>>
    ELSE <<"- " \o friendly_fields(f) \o ": " \o info[f]>>

ConfirmationLines(info) ==
    LET F[i \in 0..Len(Fields)] ==
            IF i = 0 THEN <<>> ELSE F[i-1] \o ConfirmationLine(info, Fields[i])
    IN F[Len(Fields)]

format_confirmation(info) ==
    [kind  |-> "confirmation",
     head  |-> <<info["deposit_type"]>>
                 \o (IF Truthy(info["fd_type"]) THEN <<info["fd_type"]>> ELSE <<>>),
     items |-> ConfirmationLines(info)]

(***************************************************************************)
(* The command interpreter of process_deposit: strip(), lower(), the       *)
(* comparison with the cancel words and "confirm", startswith("change ")   *)
(* and the alias user_input_lower[7:].strip(), over the messages of the    *)
(* model.                                                                  *)
(***************************************************************************)
Messages ==
    {"cancel", "quit", "Exit", " STOP ", "confirm", "Confirm ",
     "change type", "change amount", "change tenure", "change interest",
     "change payout", "change renewal", "Change  Nominee",
     "change colour", "open a fixed deposit", "", "   "}

Strip(m) ==
    CASE m = " STOP "   -> "STOP"
      [] m = "Confirm " -> "Confirm"
      [] m = "   "      -> ""
      [] OTHER          -> m

Lower(m) ==
    CASE m = "Exit"             -> "exit"
      [] m = "STOP"             -> "stop"
      [] m = "Confirm"          -> "confirm"
      [] m = "Change  Nominee"  -> "change  nominee"
      [] OTHER                  -> m

\* the cancel words without "stop"
CancelWords_NoStop == {"exit", "quit", "cancel"}

CancelWords == {"exit", "quit", "cancel", "stop"}

StartsWithChange(l) ==
    l \in {"change type", "change amount", "change tenure", "change interest",
           "change payout", "change renewal", "change  nominee", "change colour"}

\* a lookup that takes an alias it does not know for "type"
ChangeField_Fallback(l) ==
    CASE l = "change amount"    -> "amount"
      [] l = "change tenure"    -> "tenure"
      [] l = "change interest"  -> "interest"
      [] l = "change payout"    -> "payout"
      [] l = "change renewal"   -> "renewal"
      [] l = "change  nominee"  -> "nominee"
      [] OTHER                  -> "type"

\* user_input_lower[7:].strip()
ChangeField(l) ==
    CASE l = "change type"      -> "type"
      [] l = "change amount"    -> "amount"
      [] l = "change tenure"    -> "tenure"
      [] l = "change interest"  -> "interest"
      [] l = "change payout"    -> "payout"
      [] l = "change renewal"   -> "renewal"
      [] l = "change  nominee"  -> "nominee"
      [] l = "change colour"    -> "colour"
      [] OTHER                  -> ""

field_mappings ==
    [type     |-> {"deposit_type", "fd_type"},
     amount   |-> {"amount"},
     tenure   |-> {"tenure_months"},
     interest |-> {"interest_payout"},
     payout   |-> {"interest_payout"},
     renewal  |-> {"renewal_option"},
     nominee  |-> {"nominee_name", "nominee_relation"}]

\* for field_key in field_mappings[field]: deposit_info[field_key] = None
ClearFields(info, field) ==
    [k \in DOMAIN info |-> IF k \in field_mappings[field] THEN None ELSE info[k]]

(***************************************************************************)
(* The extraction collaborator.  A call of the model either raises or      *)
(* returns a text; a text is an optional opening fence, a body and an      *)
(* optional closing fence.  The body is a JSON object (a field map), some  *)
(* other JSON value, or text that is not JSON.                             *)
(***************************************************************************)
EmptyMap == [k \in {} |-> None]

Keys == FieldSet \cup {"notes"}

ExtractValues(k) ==
    CASE k = "deposit_type"     -> {"FD", "RD"}
      [] k = "fd_type"          -> {"REGULAR", "TAX_SAVER"}
      [] k = "amount"           -> {None, "", "500", "10000", "abc"}
      [] k = "tenure_months"    -> {"2", "60"}
      [] k = "interest_payout"  -> {"AT_MATURITY"}
      [] k = "renewal_option"   -> {"DO_NOT_RENEW", "TRANSFER_TO_ACCOUNT"}
      [] k = "nominee_name"     -> {"John"}
      [] k = "nominee_relation" -> {"Son"}
      [] k = "notes"            -> {"x"}

\* field maps that name one key
Singles == UNION {{[j \in {k} |-> v] : v \in ExtractValues(k)} : k \in Keys}

\* field maps that name all eight fields, as the system prompt asks for
AllNull == [f \in FieldSet |-> None]

FdRegular ==
    [AllNull EXCEPT !["deposit_type"] = "FD", !["fd_type"] = "REGULAR",
                    !["amount"] = "10000", !["tenure_months"] = "12",
                    !["interest_payout"] = "AT_MATURITY",
                    !["renewal_option"] = "DO_NOT_RENEW"]

RdPlan ==
    [AllNull EXCEPT !["deposit_type"] = "RD", !["amount"] = "10000",
                    !["tenure_months"] = "12",
                    !["renewal_option"] = "TRANSFER_TO_ACCOUNT"]

\* "nominee is my son john" (the example of the system prompt)
Nominee == [AllNull EXCEPT !["nominee_name"] = "John", !["nominee_relation"] = "Son"]

Extractions == {EmptyMap, AllNull, FdRegular, RdPlan, Nominee} \cup Singles

\* the markdown code fence (three backquotes), bare and with the json tag
Fence == "[fence]"

FenceJson == "[fence]json"

Text(open, t, v, close) == [open |-> open, body |-> [t |-> t, v |-> v], close |-> close]

EmptyObjectText == Text("", "object", EmptyMap, "")

FenceSample == [amount |-> "10000", tenure_months |-> None]

Outcomes ==
    {[kind |-> "raise", text |-> EmptyObjectText]}
    \cup {[kind |-> "text", text |-> Text("", "object", E, "")] : E \in Extractions}
    \cup {[kind |-> "text", text |-> Text(o, "object", FenceSample, c)] :
             o \in {FenceJson, Fence}, c \in {"", Fence}}
    \cup {[kind |-> "text", text |-> Text("", t, EmptyMap, "")] :
             t \in {"array", "null", "prose", "empty"}}

\* get_gemini_response: response.text, or '{}' when generate_content raises
get_gemini_response(outcome) ==
    IF outcome.kind = "raise" THEN EmptyObjectText ELSE outcome.text

\* json_str[7:] after startswith(FenceJson), json_str[:-3] after endswith(Fence)
StripFences(text) ==
    [text EXCEPT !.open  = IF @ = FenceJson THEN "" ELSE @,
                 !.close = IF @ = Fence THEN "" ELSE @]

\* json.loads: a JSON value, or JSONDecodeError
json_loads(text) ==
    IF text.open = "" /\ text.close = "" /\ text.body.t \in {"object", "array", "null"}
    THEN [raised |-> FALSE, t |-> text.body.t, v |-> text.body.v]
    ELSE [raised |-> TRUE, t |-> "none", v |-> EmptyMap]

get_deposit_details(outcome) == json_loads(StripFences(get_gemini_response(outcome)))

\* a merge that appends a new value to the one already set
Merge_Append(info, E) ==
    LET set == {k \in DOMAIN E : Truthy(E[k])}
    IN [k \in DOMAIN info \cup set |->
           IF k \notin set THEN info[k]
           ELSE IF k \in DOMAIN info /\ Truthy(info[k]) THEN info[k] \o E[k]
           ELSE E[k]]

\* Merge without the "if value" test
Merge_Clobber(info, E) ==
    [k \in DOMAIN info \cup DOMAIN E |-> IF k \in DOMAIN E THEN E[k] ELSE info[k]]

\* for key, value in updated_info.items(): if value: deposit_info[key] = value
Merge(info, E) ==
    LET set == {k \in DOMAIN E : Truthy(E[k])}
    IN [k \in DOMAIN info \cup set |-> IF k \in set THEN E[k] ELSE info[k]]

(***************************************************************************)
(* Responses.  A prompt is its kind with the lines it carries.             *)
(***************************************************************************)
NoSid == 0    \* a session_id that is absent, null or empty

Prompt(kind, head, items) == [kind |-> kind, head |-> head, items |-> items]

NoPrompt == Prompt("none", <<>>, <<>>)

WelcomePrompt == Prompt("welcome", <<>>, <<>>)

Response(status, error, message, sid, info, prompt, proceed) ==
    [status |-> status, error |-> error, message |-> message, session_id |-> sid,
     deposit_info |-> info, next_prompt |-> prompt, proceed_to_pay |-> proceed]

InternalError == Response(500, "Internal server error", "", NoSid, EmptyMap, NoPrompt, FALSE)

\* what a handler leaves behind: the request's session dict, whether the code
\* marked it modified, and what it did with the extraction collaborator
Result(session, modified, created, called, extraction, extracted, response) ==
    [session |-> session, modified |-> modified, created |-> created,
     called |-> called, extraction |-> extraction, extracted |-> extracted,
     response |-> response]

NoCall(session, modified, created, response) ==
    Result(session, modified, created, FALSE, "none", EmptyMap, response)

\* the confirm branch without the missing-field check
ConfirmTurn_NoMissing(session, dd) ==
    IF validate_deposit_info(dd.deposit_info).raised
    THEN NoCall(session, FALSE, FALSE, InternalError)
    ELSE IF validate_deposit_info(dd.deposit_info).errors # <<>>
    THEN NoCall(session, FALSE, FALSE,
                Response(400, "Validation failed", "", NoSid, EmptyMap,
                         Prompt("errors", <<>>,
                                validate_deposit_info(dd.deposit_info).errors), FALSE))
    ELSE NoCall(EmptySession, TRUE, FALSE,
                Response(200, "", "Deposit account opening initiated!", NoSid,
                         dd.deposit_info, NoPrompt, TRUE))

(***************************************************************************)
(* /api/process: the confirm branch.                                       *)
(***************************************************************************)
ConfirmTurn(session, dd) ==
    LET info == dd.deposit_info
        v    == validate_deposit_info(info)
        kept == [session EXCEPT !.deposit = dd]
    IN IF v.raised
       THEN NoCall(kept, FALSE, FALSE, InternalError)
       ELSE IF v.errors # <<>>
       THEN NoCall(kept, FALSE, FALSE,
                   Response(400, "Validation failed", "", NoSid, EmptyMap,
                            Prompt("errors", <<>>, v.errors), FALSE))
       ELSE IF missing_fields(info) # <<>>
       THEN NoCall(kept, FALSE, FALSE,
                   Response(400, "Incomplete details", "", NoSid, EmptyMap,
                            Prompt("provide", <<>>, missing_fields(info)), FALSE))
       ELSE NoCall(EmptySession, TRUE, FALSE,
                   Response(200, "", "Deposit account opening initiated!", NoSid,
                            info, NoPrompt, TRUE))

\* a change command that assigns the changed dict back to the session
ChangeTurn_Saved(session, dd, field) ==
    NoCall([session EXCEPT !.deposit = [dd EXCEPT !.deposit_info = ClearFields(@, field)]],
           TRUE, FALSE,
           Response(200, "", "", NoSid, ClearFields(dd.deposit_info, field),
                    Prompt("provide_new", <<>>, <<field>>), FALSE))

(***************************************************************************)
(* /api/process: a change command with a known alias.  The fields are set  *)
(* to None inside the dict read from the session; nothing is assigned to   *)
(* the session.                                                            *)
(***************************************************************************)
ChangeTurn(session, dd, field) ==
    LET cleared == [dd EXCEPT !.deposit_info = ClearFields(@, field)]
    IN NoCall([session EXCEPT !.deposit = cleared], FALSE, FALSE,
              Response(200, "", "", NoSid, cleared.deposit_info,
                       Prompt("provide_new", <<>>, <<field>>), FALSE))

(***************************************************************************)
(* /api/process: the free-form turn: extraction, merge, assignment to the  *)
(* session, validation and the next prompt.                                *)
(***************************************************************************)
FreeFormTurn(session, dd, outcome, pgen) ==
    LET parsed == get_deposit_details(outcome)
        kept   == [session EXCEPT !.deposit = dd]
    IN IF parsed.raised
       THEN Result(kept, FALSE, FALSE, TRUE, "unparseable", EmptyMap, InternalError)
       ELSE IF parsed.t # "object"
       THEN Result(kept, FALSE, FALSE, TRUE, "not_a_map", EmptyMap, InternalError)
       ELSE
       LET E      == parsed.v
           how    == IF outcome.kind = "raise" THEN "raised" ELSE "map"
           merged == [dd EXCEPT !.deposit_info = Merge(@, E)]
           info   == merged.deposit_info
           stored == [session EXCEPT !.deposit = merged]
           v      == validate_deposit_info(info)
           Done(response) == Result(stored, TRUE, FALSE, TRUE, how, E, response)
           Reply(prompt) == Response(200, "", "", NoSid, info, prompt, FALSE)
       IN IF v.raised
          THEN Done(InternalError)
          ELSE IF v.errors # <<>>
          THEN Done(Reply(Prompt("errors", <<>>, v.errors)))
          ELSE IF missing_fields(info) = <<>>
          THEN IF format_raises(info)
               THEN Done(InternalError)
               ELSE Done(Reply(format_confirmation(info)))
          ELSE Done(Reply(Prompt("generated",
                                 <<IF pgen = "raise" THEN "{}" ELSE "reply">>,
                                 missing_fields(info))))

(***************************************************************************)
(* /api/process.                                                           *)
(***************************************************************************)
IsCancel(msg) == msg \notin {Absent, None} /\ Lower(Strip(msg)) \in CancelWords

IsConfirm(msg) == msg \notin {Absent, None} /\ Lower(Strip(msg)) = "confirm"

\* a classifier that knows no change command
IsChange_Never(msg) == FALSE

IsChange(msg) ==
    /\ msg \notin {Absent, None}
    /\ ~IsCancel(msg) /\ ~IsConfirm(msg)
    /\ StartsWithChange(Lower(Strip(msg)))
    /\ ChangeField(Lower(Strip(msg))) \in DOMAIN field_mappings

\* a session check that accepts any session_id
SessionMatches_Any(session, sid) == HasDeposit(session)

\* deposit_data and deposit_data['session_id'] == session_id
SessionMatches(session, sid) ==
    HasDeposit(session) /\ session.deposit.session_id = sid

process_deposit(session, msg, sid, outcome, pgen, newSid) ==
    LET user_input == Strip(IF msg = Absent THEN "" ELSE msg)
    IN IF msg = None
       THEN NoCall(session, FALSE, FALSE, InternalError)
       ELSE IF ~Truthy(user_input) \/ sid = NoSid
       THEN NoCall(session, FALSE, FALSE,
                   Response(400, "Message and session ID are required", "", NoSid,
                            EmptyMap, NoPrompt, FALSE))
       ELSE IF ~SessionMatches(session, sid)
       THEN NoCall(session, FALSE, FALSE,
                   Response(404, "Invalid session", "", NoSid, EmptyMap, NoPrompt, FALSE))
       ELSE
       LET dd == [session.deposit EXCEPT !.conversation_history = Append(@, "User")]
       IN IF IsCancel(msg)
          THEN NoCall(create_new_session(newSid), TRUE, TRUE,
                      Response(200, "", "Session cancelled. Starting new session.",
                               newSid, EmptyMap, WelcomePrompt, FALSE))
          ELSE IF IsConfirm(msg)
          THEN ConfirmTurn(session, dd)
          ELSE IF IsChange(msg)
          THEN ChangeTurn(session, dd, ChangeField(Lower(user_input)))
          ELSE FreeFormTurn(session, dd, outcome, pgen)

\* /api/start
start_deposit(newSid) ==
    NoCall(create_new_session(newSid), TRUE, TRUE,
           Response(200, "", "Deposit session started", newSid, EmptyMap,
                    WelcomePrompt, FALSE))

(***************************************************************************)
(* State.  cookie is the stored session dict, issued the number of session *)
(* ids generated so far (uuid4 values are taken to be fresh: 1, 2, ...),   *)
(* cancelled the ids of the sessions a cancel command ended, and last the  *)
(* latest request with what its handler did and answered.                  *)
(***************************************************************************)
Turn(op, msg, sid, r) ==
    [op |-> op, message |-> msg, session_id |-> sid, modified |-> r.modified,
     called |-> r.called, extraction |-> r.extraction, extracted |-> r.extracted,
     response |-> r.response]

Init ==
    /\ cookie = EmptySession
    /\ issued = 0
    /\ cancelled = {}
    /\ last = Turn("none", Absent, NoSid, NoCall(EmptySession, FALSE, FALSE, InternalError))

\* save_session: the cookie is rewritten only for a session marked modified
Save(r) == IF r.modified THEN r.session ELSE cookie

Start ==
    /\ issued < MaxSessions
    /\ \E r \in {start_deposit(issued + 1)} :
          /\ cookie' = Save(r)
          /\ issued' = issued + 1
          /\ last' = Turn("start", Absent, NoSid, r)
    /\ UNCHANGED cancelled

\* the request passes the checks of lines 275-286 and is no control command
ReachesExtraction(msg, sid) ==
    /\ msg \notin {None, Absent}
    /\ Truthy(Strip(msg))
    /\ sid # NoSid
    /\ SessionMatches(cookie, sid)
    /\ ~IsCancel(msg) /\ ~IsConfirm(msg) /\ ~IsChange(msg)

\* the second call of the model (line 379) happens only when the merged fields
\* have no violation and some required field is missing
ReachesPrompt(msg, sid, outcome) ==
    \E parsed \in {get_deposit_details(outcome)} :
        /\ ~parsed.raised
        /\ parsed.t = "object"
        /\ \E info \in {Merge(cookie.deposit.deposit_info, parsed.v)} :
              \E v \in {validate_deposit_info(info)} :
                 ~v.raised /\ v.errors = <<>> /\ missing_fields(info) # <<>>

Handle(msg, sid, outcome, pgen) ==
    \E r \in {process_deposit(cookie, msg, sid, outcome, pgen, issued + 1)} :
       /\ r.created => issued < MaxSessions
       /\ cookie' = Save(r)
       /\ issued' = IF r.created THEN issued + 1 ELSE issued
       /\ cancelled' = IF r.created THEN cancelled \cup {sid} ELSE cancelled
       /\ last' = Turn("process", msg, sid, r)

\* the requests of the model: every message with the id of the stored session,
\* one message of each kind with every other id and with no id
Probes == {"cancel", "confirm", "Change  Nominee", "open a fixed deposit", ""}

Requests ==
    {rq \in (Messages \cup {Absent, None}) \X (0..issued) :
        \/ HasDeposit(cookie) /\ cookie.deposit.session_id = rq[2]
        \/ rq[1] \in Probes}

Process ==
    \E rq \in Requests :
      LET msg == rq[1]
          sid == rq[2]
      IN
        IF ReachesExtraction(msg, sid)
        THEN /\ Len(cookie.deposit.conversation_history) <= MaxHist
             /\ \E outcome \in Outcomes, pgen \in {"text", "raise"} :
                    /\ ReachesPrompt(msg, sid, outcome) \/ pgen = "text"
                    /\ Handle(msg, sid, outcome, pgen)
        ELSE Handle(msg, sid, [kind |-> "raise", text |-> EmptyObjectText], "text")

Next == Start \/ Process

Spec == Init /\ [][Next]_vars

(***************************************************************************)
(* /api/validate: the validator applied to the deposit_info of the         *)
(* request.  The endpoint reads no session and stores nothing.  The        *)
(* request carries a field map with the eight fields, or no deposit_info   *)
(* (then the default {} has no 'deposit_type' and line 188 raises).        *)
(***************************************************************************)
ValidateInputs ==
    {EmptyMap} \cup
    {[k \in FieldSet |->
        CASE k = "deposit_type"    -> t[1]
          [] k = "fd_type"         -> t[2]
          [] k = "amount"          -> t[3]
          [] k = "tenure_months"   -> t[4]
          [] k = "interest_payout" -> t[5]
          [] k = "renewal_option"  -> t[6]
          [] OTHER                 -> None] :
      t \in {None, "FD", "RD"} \X {None, "REGULAR", "TAX_SAVER"}
              \X {None, "", "500", "3000", "10000", "abc", "-5"}
              \X {None, "2", "5", "12", "60", "1.5"}
              \X {None, "AT_MATURITY"} \X {None, "DO_NOT_RENEW"}}

ValidateResponse(status, valid, errors, missing) ==
    [status |-> status, valid |-> valid, errors |-> errors,
     missing_fields |-> missing]

validate_deposit(info) ==
    IF "deposit_type" \notin DOMAIN info
    THEN ValidateResponse(500, FALSE, <<>>, <<>>)
    ELSE LET v == validate_deposit_info(info)
         IN IF v.raised
              THEN ValidateResponse(500, FALSE, <<>>, <<>>)
              ELSE ValidateResponse(200,
                                    v.errors = <<>> /\ missing_fields(info) = <<>>,
                                    v.errors, missing_fields(info))

Validate ==
    /\ \E info \in ValidateInputs :
          last' = [op |-> "validate", deposit_info |-> info,
                   response |-> validate_deposit(info)]
    /\ UNCHANGED <<cookie, issued, cancelled>>

NextValidate == Validate

SpecValidate == Init /\ [][NextValidate]_vars

(***************************************************************************)
(* The tenure line of format_confirmation, applied to a tenure_months      *)
(* whose int() is n.                                                       *)
(***************************************************************************)
FormatTenure ==
    /\ \E n \in 1..MaxTenure :
          last' = [op |-> "format", tenure_months |-> n, tenure_str |-> TenureStr(n)]
    /\ UNCHANGED <<cookie, issued, cancelled>>

NextFormat == FormatTenure

SpecFormat == Init /\ [][NextFormat]_vars

(***************************************************************************)
(* /api/complete.  The body of the request is a JSON object with a         *)
(* session_id (NoSid when absent or empty) or the JSON value null, for     *)
(* which data.get raises.  The reference number is a fresh uuid4.  The     *)
(* except clause pops the session before it answers 500.                   *)
(***************************************************************************)
CompleteResponse(status, state, error, errors, missing, reference, details) ==
    [status |-> status, state |-> state, error |-> error,
     validation_errors |-> errors, missing_fields |-> missing,
     reference_number |-> reference, completion_details |-> details]

CompleteFailed(status, error, errors, missing) ==
    CompleteResponse(status, "FAILED", error, errors, missing, "none", EmptyMap)

\* an except clause that answers 500 and leaves the session alone
complete_deposit_KeepOnError(session, body, sid) ==
    IF body = "null"
    THEN [session |-> session, modified |-> FALSE,
          response |-> CompleteFailed(500, "Internal server error", <<>>, <<>>)]
    ELSE IF sid = NoSid
    THEN [session |-> session, modified |-> FALSE,
          response |-> CompleteFailed(400, "Session ID is required", <<>>, <<>>)]
    ELSE IF ~SessionMatches(session, sid)
    THEN [session |-> session, modified |-> FALSE,
          response |-> CompleteFailed(404, "Invalid or expired session", <<>>, <<>>)]
    ELSE LET info == session.deposit.deposit_info
             v    == validate_deposit_info(info)
         IN IF v.raised
            THEN [session |-> session, modified |-> FALSE,
                  response |-> CompleteFailed(500, "Internal server error", <<>>, <<>>)]
            ELSE IF v.errors # <<>> \/ missing_fields(info) # <<>>
            THEN [session |-> session, modified |-> FALSE,
                  response |-> CompleteFailed(400, "Invalid deposit details",
                                              v.errors, missing_fields(info))]
            ELSE [session |-> EmptySession, modified |-> TRUE,
                  response |->
                      CompleteResponse(200, "COMPLETED", "", <<>>, <<>>, "uuid4",
                          [k \in {"deposit_type", "amount", "tenure_months"} |-> info[k]])]

complete_deposit(session, body, sid) ==
    IF body = "null"
    THEN [session |-> EmptySession, modified |-> TRUE,
          response |-> CompleteFailed(500, "Internal server error", <<>>, <<>>)]
    ELSE IF sid = NoSid
    THEN [session |-> session, modified |-> FALSE,
          response |-> CompleteFailed(400, "Session ID is required", <<>>, <<>>)]
    ELSE IF ~SessionMatches(session, sid)
    THEN [session |-> session, modified |-> FALSE,
          response |-> CompleteFailed(404, "Invalid or expired session", <<>>, <<>>)]
    ELSE LET info == session.deposit.deposit_info
             v    == validate_deposit_info(info)
         IN IF v.raised
            THEN [session |-> EmptySession, modified |-> TRUE,
                  response |-> CompleteFailed(500, "Internal server error", <<>>, <<>>)]
            ELSE IF v.errors # <<>> \/ missing_fields(info) # <<>>
            THEN [session |-> session, modified |-> FALSE,
                  response |-> CompleteFailed(400, "Invalid deposit details",
                                              v.errors, missing_fields(info))]
            ELSE [session |-> EmptySession, modified |-> TRUE,
                  response |->
                      CompleteResponse(200, "COMPLETED", "", <<>>, <<>>, "uuid4",
                          [k \in {"deposit_type", "amount", "tenure_months"} |-> info[k]])]

\* the requests of /api/complete: no body, and a body with no id or an issued id
CompleteRequests == {<<"null", NoSid>>} \cup ({"object"} \X (0..issued))

Complete ==
    /\ \E rq \in CompleteRequests :
          \E r \in {complete_deposit(cookie, rq[1], rq[2])} :
             /\ cookie' = Save(r)
             /\ last' = [op |-> "complete", body |-> rq[1], session_id |-> rq[2],
                         response |-> r.response]
    /\ UNCHANGED <<issued, cancelled>>

NextComplete == Start \/ Process \/ Complete

SpecComplete == Init /\ [][NextComplete]_vars

(***************************************************************************)
(* Vocabulary of the properties.  A step of Process is described by last'  *)
(* (the request and its response), cookie (the stored session before the   *)
(* turn) and cookie' (after it).                                           *)
(***************************************************************************)
Live == HasDeposit(cookie)

Slots == cookie.deposit.deposit_info

\* the step is a turn of /api/process that carries the id of the stored session
TurnOnSession ==
    /\ last'.op = "process"
    /\ Live
    /\ last'.session_id = cookie.deposit.session_id

\* the stored session after the step is the one stored before it
SameSession ==
    /\ Live
    /\ HasDeposit(cookie')
    /\ cookie'.deposit.session_id = cookie.deposit.session_id

CancelMessages == {"cancel", "quit", "Exit", " STOP "}

ConfirmMessages == {"confirm", "Confirm "}

BlankMessages == {"", "   ", Absent, None}

Unset(v) == v \in {None, ""}

\* the validator reports no violation for the slots and no required field is unset
ReadyToComplete(info) ==
    /\ ~validate_deposit_info(info).raised
    /\ validate_deposit_info(info).errors = <<>>
    /\ \A f \in {"deposit_type", "amount", "tenure_months", "renewal_option"} :
           ~Unset(info[f])
    /\ info["deposit_type"] = "FD"
           => ~Unset(info["fd_type"]) /\ ~Unset(info["interest_payout"])

(***************************************************************************)
(* C1: a confirm turn on the live session completes it (proceed_to_pay     *)
(* true, session removed, the stored slot values returned as the payload)  *)
(* exactly when the validator reports no violation and no required field   *)
(* is unset; no other request is answered with proceed_to_pay true.        *)
(***************************************************************************)
C1_Step ==
    /\ (TurnOnSession /\ last'.message \in ConfirmMessages)
          => /\ last'.response.proceed_to_pay <=> ReadyToComplete(Slots)
             /\ ReadyToComplete(Slots)
                   => /\ cookie' = EmptySession
                      /\ last'.response.deposit_info = Slots
    /\ last'.response.proceed_to_pay
          => TurnOnSession /\ last'.message \in ConfirmMessages

C1_ConfirmCompletes == [][C1_Step]_vars

C1_Witness ==
    /\ last.op = "process"
    /\ last.message \in ConfirmMessages
    /\ last.response.proceed_to_pay
    /\ last.response.deposit_info = FdRegular
    /\ cookie = EmptySession

(***************************************************************************)
(* C2: a confirm turn on a session that has validation violations or unset *)
(* required fields does not complete or remove the session; it answers     *)
(* with the violations or with the missing fields and leaves the stored    *)
(* session as it was.                                                      *)
(***************************************************************************)
C2_Step ==
    (/\ TurnOnSession
     /\ last'.message \in ConfirmMessages
     /\ ~ReadyToComplete(Slots))
        => /\ cookie' = cookie
           /\ ~last'.response.proceed_to_pay
           /\ last'.response.next_prompt.kind \in {"errors", "provide"}
           /\ last'.response.next_prompt.items # <<>>

C2_ConfirmReportsProblems == [][C2_Step]_vars

(***************************************************************************)
(* C3: a cancel word (exit, quit, cancel, stop, in any case) on the live   *)
(* session discards it, and every later turn that carries the id of a      *)
(* cancelled session is answered session-not-found and changes nothing.    *)
(***************************************************************************)
C3_Step ==
    /\ (TurnOnSession /\ last'.message \in CancelMessages)
          => /\ ~SameSession
             /\ last'.session_id \in cancelled'
             /\ ~last'.response.proceed_to_pay
    /\ (/\ last'.op = "process"
        /\ last'.session_id \in cancelled
        /\ last'.message \notin BlankMessages)
          => /\ last'.response.status = 404
             /\ last'.response.error = "Invalid session"
             /\ cookie' = cookie

C3_CancelIsAbsolute == [][C3_Step]_vars

C3_Witness ==
    /\ last.op = "process"
    /\ last.session_id \in cancelled
    /\ last.message \in ConfirmMessages
    /\ last.response.status = 404
    /\ Live

(***************************************************************************)
(* C4: a free-form turn keeps every set field for which the extraction     *)
(* result has null, the empty string or no entry; and a set field of the   *)
(* stored session never becomes unset in a turn that is no change command. *)
(***************************************************************************)
C4_Step ==
    SameSession =>
        \A f \in FieldSet :
           /\ (/\ last'.called
               /\ ~Unset(Slots[f])
               /\ (f \in DOMAIN last'.extracted => Unset(last'.extracted[f])))
                 => cookie'.deposit.deposit_info[f] = Slots[f]
           /\ (~Unset(Slots[f]) /\ Unset(cookie'.deposit.deposit_info[f]))
                 => last'.message \in {"change type", "change amount", "change tenure",
                                       "change interest", "change payout",
                                       "change renewal", "Change  Nominee"}

C4_NoNullClobber == [][C4_Step]_vars

C4_Witness ==
    /\ last.op = "process"
    /\ last.called
    /\ last.response.status = 200
    /\ "amount" \in DOMAIN last.extracted
    /\ last.extracted["amount"] = ""
    /\ Live
    /\ Slots["amount"] = "10000"

(***************************************************************************)
(* C5: no stored session holds a renewal_option outside the domain of its  *)
(* variant: an FD session holds none of the RD options, an RD session none *)
(* of the FD options.                                                      *)
(***************************************************************************)
FdRenewals == {"RENEW_PRINCIPAL_AND_INTEREST", "RENEW_PRINCIPAL_ONLY", "DO_NOT_RENEW"}

RdRenewals ==
    {"TRANSFER_TO_ACCOUNT", "CONVERT_TO_FD_PRINCIPAL", "CONVERT_TO_FD_PRINCIPAL_AND_INTEREST"}

C5_RenewalDomainIsolation ==
    Live =>
        /\ Slots["deposit_type"] = "FD" => Slots["renewal_option"] \notin RdRenewals
        /\ Slots["deposit_type"] = "RD" => Slots["renewal_option"] \notin FdRenewals

(***************************************************************************)
(* C6: a change nominee turn on a session with nominee_name and            *)
(* nominee_relation set leaves both unset, in the response and in the      *)
(* stored session, and answers with neither a confirmation summary nor a   *)
(* completion.                                                             *)
(***************************************************************************)
C6_Step ==
    (/\ TurnOnSession
     /\ last'.message = "Change  Nominee"
     /\ ~Unset(Slots["nominee_name"])
     /\ ~Unset(Slots["nominee_relation"]))
        => /\ Unset(last'.response.deposit_info["nominee_name"])
           /\ Unset(last'.response.deposit_info["nominee_relation"])
           /\ last'.response.next_prompt.kind # "confirmation"
           /\ ~last'.response.proceed_to_pay
           /\ SameSession
           /\ Unset(cookie'.deposit.deposit_info["nominee_name"])
           /\ Unset(cookie'.deposit.deposit_info["nominee_relation"])

C6_ChangeClearsPair == [][C6_Step]_vars

(***************************************************************************)
(* C7 as stated: the variant (deposit_type, fd_type) of a stored session   *)
(* never changes.                                                          *)
(***************************************************************************)
Variant(c) == <<c.deposit.deposit_info["deposit_type"], c.deposit.deposit_info["fd_type"]>>

C7_Step ==
    /\ (HasDeposit(cookie') /\ ~SameSession) => Variant(cookie') = <<None, None>>
    /\ SameSession =>
          \A f \in {"deposit_type", "fd_type"} :
              cookie'.deposit.deposit_info[f] # Slots[f]
                 => /\ last'.called
                    /\ f \in DOMAIN last'.extracted
                    /\ ~Unset(last'.extracted[f])
                    /\ cookie'.deposit.deposit_info[f] = last'.extracted[f]

C8_Step ==
    (/\ TurnOnSession
     /\ last'.called
     /\ \/ last'.extraction \in {"raised", "unparseable", "not_a_map"}
        \/ last'.extracted = EmptyMap)
        => /\ SameSession
           /\ cookie'.deposit.deposit_info = Slots
           /\ last'.response.status = 200
           /\ last'.response.next_prompt.kind # "none"

C8_ExtractionFailureAbsorbed == [][C8_Step]_vars

(***************************************************************************)
(* C9: a turn of /api/process that fails with an internal error leaves the *)
(* stored session exactly as it was before the turn.                       *)
(***************************************************************************)
C9_Step ==
    (last'.op = "process" /\ last'.response.status = 500) => cookie' = cookie

C9_TurnAtomicity == [][C9_Step]_vars

(***************************************************************************)
(* C10: a turn whose message or session_id is missing or empty, or whose   *)
(* session_id is not the id of the stored session, is rejected without a   *)
(* call of the extraction collaborator and without a change of the stored  *)
(* session.                                                                *)
(***************************************************************************)
C10_Step ==
    (/\ last'.op = "process"
     /\ \/ last'.message \in BlankMessages
        \/ last'.session_id = NoSid
        \/ ~Live
        \/ cookie.deposit.session_id # last'.session_id)
        => /\ cookie' = cookie
           /\ ~last'.called
           /\ last'.response.status \in {400, 404, 500}
           /\ last'.response.deposit_info = EmptyMap
           /\ ~last'.response.proceed_to_pay

C10_RejectedBeforeAnythingRuns == [][C10_Step]_vars

C10_Witness ==
    /\ last.op = "process"
    /\ last.message = "open a fixed deposit"
    /\ Live
    /\ last.session_id # NoSid
    /\ last.session_id # cookie.deposit.session_id
    /\ last.response.status = 404
    /\ Slots = FdRegular

(***************************************************************************)
(* C11: a turn whose message is a control command (a cancel word, confirm, *)
(* or change with a recognised alias) is handled as that command and never *)
(* as a free-form message: the extraction collaborator is not called, and  *)
(* neither the stored session nor the response carries a slot value that   *)
(* the stored session did not hold before the turn.                        *)
(***************************************************************************)
ChangeMessages ==
    {"change type", "change amount", "change tenure", "change interest",
     "change payout", "change renewal", "Change  Nominee"}

\* every set value of the field map is the value the stored session held
NoSlotSet(info) ==
    \A f \in DOMAIN info :
        ~Unset(info[f]) => f \in DOMAIN Slots /\ info[f] = Slots[f]

C11_Step ==
    (/\ TurnOnSession
     /\ last'.message \in CancelMessages \cup ConfirmMessages \cup ChangeMessages)
        => /\ ~last'.called
           /\ last'.extracted = EmptyMap
           /\ HasDeposit(cookie') => NoSlotSet(cookie'.deposit.deposit_info)
           /\ NoSlotSet(last'.response.deposit_info)
           /\ last'.message \in CancelMessages => ~SameSession
           /\ last'.message \in ChangeMessages
                 => /\ last'.response.status = 200
                    /\ last'.response.next_prompt.kind = "provide_new"
                    /\ cookie' = cookie

C11_CommandPrecedence == [][C11_Step]_vars

C11_Witness ==
    /\ last.op = "process"
    /\ last.message = "change amount"
    /\ ~last.called
    /\ last.response.next_prompt.kind = "provide_new"
    /\ Live
    /\ last.session_id = cookie.deposit.session_id
    /\ Slots = FdRegular

(***************************************************************************)
(* C12: the merge is idempotent.  For the field map S of every stored      *)
(* session and every field map E the extraction can return,                *)
(* merge(merge(S, E), E) = merge(S, E); and after a free-form turn that    *)
(* merged E, merging E again leaves the stored field map as it is.         *)
(***************************************************************************)
C12_MergeIdempotent ==
    Live =>
       /\ \A E \in Extractions : Merge(Merge(Slots, E), E) = Merge(Slots, E)
       /\ (/\ last.op = "process"
           /\ last.session_id = cookie.deposit.session_id
           /\ last.extraction = "map"
           /\ last.modified)
             => Merge(Slots, last.extracted) = Slots

C12_Witness ==
    /\ Live
    /\ last.op = "process"
    /\ last.session_id = cookie.deposit.session_id
    /\ last.extraction = "map"
    /\ last.extracted = RdPlan
    /\ Slots["deposit_type"] = "RD"
    /\ Slots["nominee_name"] = "John"
    /\ Merge(Merge(Slots, Nominee), Nominee) = Merge(Slots, Nominee)

(***************************************************************************)
(* C13: Tax-Saver tenure lock.  For the field map of a Tax-Saver FD whose  *)
(* tenure_months is set, the validator answers with a violation list; the  *)
(* list holds the Tax-Saver tenure violation when the value is anything    *)
(* other than 60 (so the field map is not valid), and does not hold it     *)
(* when the value is 60.                                                   *)
(***************************************************************************)
Reports(errors, e) == \E i \in DOMAIN errors : errors[i] = e

C13_TaxSaverTenureLock ==
    (/\ last.op = "validate"
     /\ DOMAIN last.deposit_info = FieldSet
     /\ last.deposit_info["deposit_type"] = "FD"
     /\ last.deposit_info["fd_type"] = "TAX_SAVER"
     /\ last.deposit_info["amount"] \in {None, "", "500", "3000", "10000", "-5"}
     /\ ~Unset(last.deposit_info["tenure_months"]))
        => /\ last.response.status = 200
           /\ last.deposit_info["tenure_months"] # "60"
                 => /\ Reports(last.response.errors, ErrTaxTenure)
                    /\ ~last.response.valid
           /\ last.deposit_info["tenure_months"] = "60"
                 => ~Reports(last.response.errors, ErrTaxTenure)

(***************************************************************************)
(* C14: amount rule.  For every field map of a known variant with amount   *)
(* set, the validator answers with a violation list, never with a          *)
(* failure; the list holds a                                               *)
(* violation when the amount is below the threshold of the variant         *)
(* (Regular FD 1000, Tax-Saver FD 5000, RD 5000), and when the amount is   *)
(* not a number or is negative.                                            *)
(***************************************************************************)
BelowThreshold(info) ==
    \/ /\ info["deposit_type"] = "FD"
       /\ info["fd_type"] = "REGULAR"
       /\ info["amount"] \in {"500", "-5"}
    \/ /\ info["deposit_type"] = "FD"
       /\ info["fd_type"] = "TAX_SAVER"
       /\ info["amount"] \in {"500", "3000", "-5"}
    \/ /\ info["deposit_type"] = "RD"
       /\ info["amount"] \in {"500", "3000", "-5"}

KnownVariant(info) ==
    \/ info["deposit_type"] = "FD" /\ info["fd_type"] \in {"REGULAR", "TAX_SAVER"}
    \/ info["deposit_type"] = "RD"

C14_AmountViolations ==
    (/\ last.op = "validate"
     /\ DOMAIN last.deposit_info = FieldSet
     /\ KnownVariant(last.deposit_info)
     /\ last.deposit_info["tenure_months"] \in {None, "2", "5", "12", "60"}
     /\ ~Unset(last.deposit_info["amount"]))
        => /\ last.response.status = 200
           /\ (\/ BelowThreshold(last.deposit_info)
               \/ last.deposit_info["amount"] \in {"abc", "-5"})
                 => /\ last.response.errors # <<>>
                    /\ ~last.response.valid

(***************************************************************************)
(* C15: missing-field prompt.  Whenever a turn on a session of a known     *)
(* deposit type reports missing required fields (a confirm on an           *)
(* incomplete session, or a free-form turn that leaves required fields     *)
(* unset), the prompt names exactly the unset required fields of the       *)
(* variant, in the schema order amount, tenure_months, fd_type,            *)
(* interest_payout, renewal_option.                                        *)
(***************************************************************************)
SchemaOrder ==
    <<"amount", "tenure_months", "fd_type", "interest_payout", "renewal_option">>

UnsetInSchemaOrder(info) ==
    LET wanted(f) == /\ f \in {"fd_type", "interest_payout"}
                           => info["deposit_type"] = "FD"
                     /\ Unset(Get(info, f))
    IN SelectSeq(SchemaOrder, wanted)

\* the fields a missing-field prompt names: the list of the confirm answer,
\* the list the generated reply was asked for, nothing in the reply "{}"
NamedFields(prompt) ==
    IF prompt.kind = "generated" /\ prompt.head = <<"{}">> THEN <<>> ELSE prompt.items

C15_Step ==
    (/\ last'.op = "process"
     /\ last'.response.next_prompt.kind \in {"provide", "generated"}
     /\ HasDeposit(cookie')
     /\ cookie'.deposit.deposit_info["deposit_type"] \in {"FD", "RD"})
        => NamedFields(last'.response.next_prompt)
              = UnsetInSchemaOrder(cookie'.deposit.deposit_info)

C15_MissingFieldPrompt == [][C15_Step]_vars

(***************************************************************************)
(* C16: auto-transition to confirmation.  After a free-form turn whose     *)
(* merge leaves no violation and no required field unset, the prompt of    *)
(* the response is the confirmation summary of the merged fields; after    *)
(* any turn that leaves a violation or an unset required field (a change   *)
(* command included) the prompt is never the confirmation summary.         *)
(***************************************************************************)
\* the step is a free-form turn that merged the extracted map into the session
MergedTurn ==
    /\ TurnOnSession
    /\ last'.called
    /\ last'.extraction \in {"map", "raised"}
    /\ SameSession

C16_Step ==
    /\ (MergedTurn /\ ReadyToComplete(cookie'.deposit.deposit_info))
          => /\ last'.response.status = 200
             /\ last'.response.next_prompt.kind = "confirmation"
             /\ last'.response.deposit_info = cookie'.deposit.deposit_info
    /\ (last'.op = "process" /\ last'.response.next_prompt.kind = "confirmation")
          => /\ MergedTurn
             /\ ReadyToComplete(cookie'.deposit.deposit_info)

C16_AutoTransition == [][C16_Step]_vars

(***************************************************************************)
(* C17: tenure formatting.  A tenure of n >= 1 months is written with      *)
(* Y = n div 12 and M = n mod 12 as "Y year(s)" and "M month(s)": a zero   *)
(* component is left out, two components are joined with " and ", and a    *)
(* component of 1 is singular.  26 is "2 years and 2 months", 12 is        *)
(* "1 year", 5 is "5 months".                                              *)
(***************************************************************************)
Counted(k, unit) == IF k = 1 THEN "1 " \o unit ELSE ToString(k) \o " " \o unit \o "s"

YearsAndMonths(n) ==
    IF n \div 12 > 0 /\ n % 12 > 0
    THEN Counted(n \div 12, "year") \o " and " \o Counted(n % 12, "month")
    ELSE IF n \div 12 > 0 THEN Counted(n \div 12, "year")
    ELSE Counted(n % 12, "month")

C17_TenureFormatting ==
    last.op = "format" =>
       /\ last.tenure_str = YearsAndMonths(last.tenure_months)
       /\ last.tenure_months = 26 => last.tenure_str = "2 years and 2 months"
       /\ last.tenure_months = 12 => last.tenure_str = "1 year"
       /\ last.tenure_months = 5  => last.tenure_str = "5 months"
       /\ last.tenure_months = 1  => last.tenure_str = "1 month"
       /\ last.tenure_months = 13 => last.tenure_str = "1 year and 1 month"

C17_Witness ==
    /\ last.op = "format"
    /\ last.tenure_months = 26
    /\ last.tenure_str = "2 years and 2 months"

(***************************************************************************)
(* C18: a change command whose alias is not recognised ("change colour")   *)
(* is handled as a free-form message: it is not answered as a change or a  *)
(* rejected command, it clears no field, the extraction collaborator is    *)
(* called, and the map it returns is merged into the stored session as on  *)
(* any free-form turn.                                                     *)
(***************************************************************************)
C18_Step ==
    (TurnOnSession /\ last'.message = "change colour")
        => /\ last'.called
           /\ last'.response.status \notin {400, 404}
           /\ last'.response.next_prompt.kind # "provide_new"
           /\ SameSession
           /\ \A f \in DOMAIN Slots :
                  ~Unset(Slots[f]) => ~Unset(cookie'.deposit.deposit_info[f])
           /\ last'.extraction \in {"map", "raised"}
                 => \A f \in DOMAIN Slots \cup DOMAIN last'.extracted :
                       /\ f \in DOMAIN last'.extracted /\ ~Unset(last'.extracted[f])
                             => /\ f \in DOMAIN cookie'.deposit.deposit_info
                                /\ cookie'.deposit.deposit_info[f] = last'.extracted[f]
                       /\ f \in DOMAIN Slots
                            /\ (f \notin DOMAIN last'.extracted \/ Unset(last'.extracted[f]))
                             => cookie'.deposit.deposit_info[f] = Slots[f]

C18_UnknownAliasIsFreeForm == [][C18_Step]_vars

C18_Witness ==
    /\ last.op = "process"
    /\ last.message = "change colour"
    /\ last.called
    /\ last.extracted = RdPlan
    /\ last.response.status = 200
    /\ last.response.next_prompt.kind = "confirmation"
    /\ Live
    /\ Slots["amount"] = "10000"
    /\ Slots["nominee_name"] = "John"

(***************************************************************************)
(* C19: typed stored values.  In every stored session amount and           *)
(* tenure_months are each unset or a numeric string the validator parses,  *)
(* whatever the extraction returned; so the validator never fails on a     *)
(* stored field map.                                                       *)
(***************************************************************************)
NumericStrings == {"500", "3000", "10000", "2", "5", "12", "26", "60"}

C19_TypedStoredValues ==
    Live =>
       /\ Unset(Slots["amount"]) \/ Slots["amount"] \in NumericStrings
       /\ Unset(Slots["tenure_months"]) \/ Slots["tenure_months"] \in NumericStrings
       /\ ~validate_deposit_info(Slots).raised

(***************************************************************************)
(* C20: closed field map.  The deposit_info of every stored session has    *)
(* exactly the eight keys it was created with, whatever keys the           *)
(* extraction returned, so its confirmation summary can be rendered.       *)
(***************************************************************************)
C20_ClosedFieldMap ==
    Live =>
       /\ DOMAIN Slots = FieldSet
       /\ ~validate_deposit_info(Slots).raised => ~format_raises(Slots)

(***************************************************************************)
(* C21, as the specification states it: /api/complete removes the session  *)
(* only when it answers COMPLETED; every call that answers FAILED (no      *)
(* session_id, unknown session, invalid or incomplete details, internal    *)
(* error) leaves the stored session live and unchanged.                    *)
(***************************************************************************)
C21_OriginalStep ==
    last'.op = "complete"
        => /\ last'.response.state = "COMPLETED" => cookie' = EmptySession
           /\ last'.response.state = "FAILED" => cookie' = cookie

C21_Step ==
    last'.op = "complete"
        => /\ last'.response.state = "COMPLETED"
                 <=> /\ last'.body = "object"
                     /\ Live
                     /\ last'.session_id = cookie.deposit.session_id
                     /\ ReadyToComplete(Slots)
           /\ last'.response.state = "COMPLETED"
                 => /\ last'.response.status = 200
                    /\ cookie' = EmptySession
                    /\ last'.response.reference_number = "uuid4"
                    /\ \A k \in {"deposit_type", "amount", "tenure_months"} :
                           last'.response.completion_details[k] = Slots[k]
           /\ last'.response.state # "COMPLETED"
                 => /\ last'.response.state = "FAILED"
                    /\ last'.response.status \in {400, 404, 500}
                    /\ last'.response.reference_number = "none"
           /\ last'.response.status \in {400, 404} => cookie' = cookie
           /\ last'.response.status = 500 => cookie' = EmptySession

====
